---- MODULE Spec2Model ----
(***************************************************************************)
(* Model of the revision-history timeline of legit-example-plate:          *)
(*   src/components/ui/timeline.tsx  (calculateDiff, renderDiff, Timeline) *)
(*   src/app/page.tsx                (the page that mounts the Timeline)   *)
(*                                                                         *)
(* A JavaScript string is modelled as a sequence of one-character strings, *)
(* so that length, substring, split and concatenation are computed.        *)
(* A diff is a sequence of records [operation, text], operation being      *)
(* -1 (delete), 0 (equal) or 1 (insert), as in diff-match-patch.           *)
(***************************************************************************)
EXTENDS Integers, Sequences, FiniteSets, TLC

\* ------------------------------------------------------------------------
\* Bounds of the model
\* ------------------------------------------------------------------------

\* Longest text given to calculateDiff / renderDiff in SpecDiff.
MaxLen == 3

\* Number of commits (oids 1..NumOids) the history can hold.
NumOids == 2

\* Number of fetch batches (runs of the effect) in one behaviour.
MaxBatches == 2

\* How many times onRollback is invoked.
MaxRollbacks == 2

\* ------------------------------------------------------------------------
\* Strings
\* ------------------------------------------------------------------------

NL == "\n"

\* The characters texts are built from: two letters and the line break.
Chars == {"a", "b", NL}

RECURSIVE StringsOfLen(_)
StringsOfLen(n) ==
  IF n = 0 THEN {<<>>}
  ELSE {Append(s, c) : s \in StringsOfLen(n - 1), c \in Chars}

Strings == UNION {StringsOfLen(n) : n \in 0..MaxLen}

Min(a, b) == IF a < b THEN a ELSE b
Max(a, b) == IF a > b THEN a ELSE b

SetMax(S) == CHOOSE m \in S : \A n \in S : n <= m

\* s.substring(from, to), 0-based, end exclusive.
Substring(s, from, to) == SubSeq(s, Max(from, 0) + 1, Min(to, Len(s)))

\* s.substring(from)
SubstringFrom(s, from) == SubSeq(s, Max(from, 0) + 1, Len(s))

\* long.indexOf(short, fromIndex): first 0-based index >= fromIndex, or -1.
IndexOfFrom(long, short, fromIndex) ==
  LET hits == {i \in fromIndex..(Len(long) - Len(short)) :
                 Substring(long, i, i + Len(short)) = short}
  IN IF hits = {} THEN -1 ELSE CHOOSE i \in hits : \A j \in hits : i <= j

IndexOf(long, short) == IndexOfFrom(long, short, 0)

\* text.split('\n'): the pieces between line breaks; k breaks give k+1 pieces.
RECURSIVE Split(_)
Split(text) ==
  LET i == IndexOf(text, <<NL>>)
  IN IF i = -1 THEN <<text>>
     ELSE <<Substring(text, 0, i)>> \o Split(SubstringFrom(text, i + 1))

\* ------------------------------------------------------------------------
\* diff-match-patch (the library behind dmp.diff_main and
\* dmp.diff_cleanupSemantic).  The deadline (Diff_Timeout, one second) is
\* never reached on texts of the modelled length, and line mode needs texts
\* longer than 100 characters: both are left out.
\* ------------------------------------------------------------------------

DIFF_DELETE == -1
DIFF_INSERT == 1
DIFF_EQUAL == 0

Diff(op, text) == [operation |-> op, text |-> text]

diff_commonPrefix(text1, text2) ==
  SetMax({n \in 0..Min(Len(text1), Len(text2)) :
            Substring(text1, 0, n) = Substring(text2, 0, n)})

diff_commonSuffix(text1, text2) ==
  SetMax({n \in 0..Min(Len(text1), Len(text2)) :
            SubstringFrom(text1, Len(text1) - n) = SubstringFrom(text2, Len(text2) - n)})

\* Length of the longest suffix of text1 that is a prefix of text2.
diff_commonOverlap(text1, text2) ==
  SetMax({n \in 0..Min(Len(text1), Len(text2)) :
            SubstringFrom(text1, Len(text1) - n) = Substring(text2, 0, n)})

\* diffs.splice(start, deleteCount, ...items)
Splice(diffs, start, deleteCount, items) ==
  SubSeq(diffs, 1, start) \o items \o SubSeq(diffs, start + deleteCount + 1, Len(diffs))

\* diffs[i] with a 0-based index.
At(diffs, i) == diffs[i + 1]

SetText(diffs, i, text) == [diffs EXCEPT ![i + 1].text = text]
SetOp(diffs, i, op) == [diffs EXCEPT ![i + 1].operation = op]

\* --- diff_cleanupMerge ---------------------------------------------------
\* The loops are written as recursive operators over a record st of the
\* loop's variables; each step of a loop body is an operator of its own.

MergeState(diffs, pointer) ==
  [diffs |-> diffs, pointer |-> pointer,
   count_delete |-> 0, count_insert |-> 0,
   text_delete |-> <<>>, text_insert |-> <<>>]

EditCount(st) == st.count_delete + st.count_insert

\* Whether the record before the run of edits is an equality.
EditsFollowEquality(st) ==
  (st.pointer - EditCount(st)) > 0
  /\ At(st.diffs, st.pointer - EditCount(st) - 1).operation = DIFF_EQUAL

\* Factor out any common prefix of the merged insertion and deletion.
merge_factorPrefix(st, commonlength) ==
  IF commonlength = 0 THEN st
  ELSE [st EXCEPT
          !.diffs = IF EditsFollowEquality(st)
                    THEN SetText(st.diffs, st.pointer - EditCount(st) - 1,
                                 At(st.diffs, st.pointer - EditCount(st) - 1).text
                                   \o Substring(st.text_insert, 0, commonlength))
                    ELSE Splice(st.diffs, 0, 0,
                                <<Diff(DIFF_EQUAL, Substring(st.text_insert, 0, commonlength))>>),
          !.pointer = IF EditsFollowEquality(st) THEN st.pointer ELSE st.pointer + 1,
          !.text_insert = SubstringFrom(st.text_insert, commonlength),
          !.text_delete = SubstringFrom(st.text_delete, commonlength)]

\* Factor out any common suffix.
merge_factorSuffix(st, commonlength) ==
  IF commonlength = 0 THEN st
  ELSE [st EXCEPT
          !.diffs = SetText(st.diffs, st.pointer,
                            SubstringFrom(st.text_insert, Len(st.text_insert) - commonlength)
                              \o At(st.diffs, st.pointer).text),
          !.text_insert = Substring(st.text_insert, 0, Len(st.text_insert) - commonlength),
          !.text_delete = Substring(st.text_delete, 0, Len(st.text_delete) - commonlength)]

merge_suffixOf(st) ==
  merge_factorSuffix(st, diff_commonSuffix(st.text_insert, st.text_delete))

merge_factor(st) ==
  IF st.count_delete # 0 /\ st.count_insert # 0
  THEN merge_suffixOf(merge_factorPrefix(st, diff_commonPrefix(st.text_insert, st.text_delete)))
  ELSE st

MergedEdits(text_delete, text_insert) ==
  (IF Len(text_delete) > 0 THEN <<Diff(DIFF_DELETE, text_delete)>> ELSE <<>>)
  \o (IF Len(text_insert) > 0 THEN <<Diff(DIFF_INSERT, text_insert)>> ELSE <<>>)

\* Delete the offending records and add the merged ones.
merge_splice(st) ==
  MergeState(Splice(st.diffs, st.pointer - EditCount(st), EditCount(st),
                    MergedEdits(st.text_delete, st.text_insert)),
             st.pointer - EditCount(st)
               + Len(MergedEdits(st.text_delete, st.text_insert)) + 1)

\* Merge this equality with the previous one.
merge_equalities(st) ==
  MergeState(Splice(SetText(st.diffs, st.pointer - 1,
                            At(st.diffs, st.pointer - 1).text
                              \o At(st.diffs, st.pointer).text),
                    st.pointer, 1, <<>>),
             st.pointer)

\* First pass of diff_cleanupMerge: the while loop over the diffs (with the
\* dummy equality already pushed).
RECURSIVE cleanupMerge_pass1(_)
cleanupMerge_pass1(st) ==
  IF st.pointer >= Len(st.diffs) THEN st.diffs
  ELSE IF At(st.diffs, st.pointer).operation = DIFF_INSERT THEN
    cleanupMerge_pass1([st EXCEPT !.count_insert = @ + 1,
                                  !.text_insert = @ \o At(st.diffs, st.pointer).text,
                                  !.pointer = @ + 1])
  ELSE IF At(st.diffs, st.pointer).operation = DIFF_DELETE THEN
    cleanupMerge_pass1([st EXCEPT !.count_delete = @ + 1,
                                  !.text_delete = @ \o At(st.diffs, st.pointer).text,
                                  !.pointer = @ + 1])
  \* Upon reaching an equality, check for prior redundancies.
  ELSE IF EditCount(st) > 1 THEN
    cleanupMerge_pass1(merge_splice(merge_factor(st)))
  ELSE IF st.pointer # 0 /\ At(st.diffs, st.pointer - 1).operation = DIFF_EQUAL THEN
    cleanupMerge_pass1(merge_equalities(st))
  ELSE cleanupMerge_pass1(MergeState(st.diffs, st.pointer + 1))

\* Shift the edit at pointer over the previous equality.
shift_overPrevious(diffs, pointer) ==
  Splice([diffs EXCEPT
            ![pointer + 1].text =
               At(diffs, pointer - 1).text
                 \o Substring(At(diffs, pointer).text, 0,
                              Len(At(diffs, pointer).text) - Len(At(diffs, pointer - 1).text)),
            ![pointer + 2].text = At(diffs, pointer - 1).text \o At(diffs, pointer + 1).text],
         pointer - 1, 1, <<>>)

\* Shift the edit at pointer over the next equality.
shift_overNext(diffs, pointer) ==
  Splice([diffs EXCEPT
            ![pointer].text = At(diffs, pointer - 1).text \o At(diffs, pointer + 1).text,
            ![pointer + 1].text =
               SubstringFrom(At(diffs, pointer).text, Len(At(diffs, pointer + 1).text))
                 \o At(diffs, pointer + 1).text],
         pointer + 1, 1, <<>>)

EndsWith(text, suffix) ==
  Len(text) >= Len(suffix) /\ SubstringFrom(text, Len(text) - Len(suffix)) = suffix

StartsWith(text, prefix) == Substring(text, 0, Len(prefix)) = prefix

\* Second pass: single edits surrounded by equalities are shifted sideways
\* to eliminate an equality.  Returns <<diffs, changes>>.
RECURSIVE cleanupMerge_pass2(_, _, _)
cleanupMerge_pass2(diffs, pointer, changes) ==
  IF pointer >= Len(diffs) - 1 THEN <<diffs, changes>>
  ELSE IF At(diffs, pointer - 1).operation = DIFF_EQUAL
          /\ At(diffs, pointer + 1).operation = DIFF_EQUAL THEN
    IF EndsWith(At(diffs, pointer).text, At(diffs, pointer - 1).text)
    THEN cleanupMerge_pass2(shift_overPrevious(diffs, pointer), pointer + 1, TRUE)
    ELSE IF StartsWith(At(diffs, pointer).text, At(diffs, pointer + 1).text)
    THEN cleanupMerge_pass2(shift_overNext(diffs, pointer), pointer + 1, TRUE)
    ELSE cleanupMerge_pass2(diffs, pointer + 1, changes)
  ELSE cleanupMerge_pass2(diffs, pointer + 1, changes)

\* Remove the dummy entry at the end.
merge_popDummy(diffs) ==
  IF diffs[Len(diffs)].text = <<>> THEN SubSeq(diffs, 1, Len(diffs) - 1) ELSE diffs

RECURSIVE diff_cleanupMerge(_)

\* If shifts were made, the diff needs reordering and another shift sweep.
merge_again(shifted) ==
  IF shifted[2] THEN diff_cleanupMerge(shifted[1]) ELSE shifted[1]

diff_cleanupMerge(diffs) ==
  merge_again(cleanupMerge_pass2(
    merge_popDummy(cleanupMerge_pass1(MergeState(Append(diffs, Diff(DIFF_EQUAL, <<>>)), 0))),
    1, FALSE))

\* --- diff_cleanupSemanticLossless -----------------------------------------

\* Of the modelled characters only the line break is non-alphanumeric; it is
\* also whitespace and a line break.
IsLineBreak(c) == c = NL

\* /\n\r?\n$/ and /^\r?\n\r?\n/ on texts without carriage returns.
EndsBlankLine(one) ==
  Len(one) >= 2 /\ one[Len(one)] = NL /\ one[Len(one) - 1] = NL
StartsBlankLine(two) ==
  Len(two) >= 2 /\ two[1] = NL /\ two[2] = NL

diff_cleanupSemanticScore(one, two) ==
  IF one = <<>> \/ two = <<>> THEN 6
  ELSE IF (IsLineBreak(one[Len(one)]) /\ EndsBlankLine(one))
          \/ (IsLineBreak(two[1]) /\ StartsBlankLine(two)) THEN 5
  ELSE IF IsLineBreak(one[Len(one)]) \/ IsLineBreak(two[1]) THEN 4
  ELSE 0

\* A candidate position of the edit between its two equalities.
Fit(equality1, edit, equality2) ==
  [score |-> diff_cleanupSemanticScore(equality1, edit)
             + diff_cleanupSemanticScore(edit, equality2),
   equality1 |-> equality1, edit |-> edit, equality2 |-> equality2]

\* The >= encourages trailing rather than leading whitespace on edits.
BetterFit(fit, best) == IF fit.score >= best.score THEN fit ELSE best

\* The inner while loop: step the edit right character by character,
\* looking for the best fit.  cur is the current position.
RECURSIVE lossless_slide(_, _)

lossless_slideTo(fit, best) == lossless_slide(fit, BetterFit(fit, best))

lossless_slide(cur, best) ==
  IF cur.edit # <<>> /\ cur.equality2 # <<>> /\ cur.edit[1] = cur.equality2[1]
  THEN lossless_slideTo(Fit(Append(cur.equality1, cur.edit[1]),
                            Append(SubstringFrom(cur.edit, 1), cur.equality2[1]),
                            SubstringFrom(cur.equality2, 1)),
                        best)
  ELSE best

\* First, shift the edit as far left as possible.
lossless_shiftLeft(equality1, edit, equality2, commonOffset) ==
  Fit(Substring(equality1, 0, Len(equality1) - commonOffset),
      SubstringFrom(edit, Len(edit) - commonOffset)
        \o Substring(edit, 0, Len(edit) - commonOffset),
      SubstringFrom(edit, Len(edit) - commonOffset) \o equality2)

lossless_start(fit) == lossless_slide(fit, fit)

\* The best fit of the single edit at pointer.
lossless_best(diffs, pointer) ==
  lossless_start(lossless_shiftLeft(
    At(diffs, pointer - 1).text, At(diffs, pointer).text, At(diffs, pointer + 1).text,
    diff_commonSuffix(At(diffs, pointer - 1).text, At(diffs, pointer).text)))

\* Save the improvement back to the diff; <<diffs, pointer>> afterwards.
lossless_saveSecond(diffs, pointer, best) ==
  IF best.equality2 # <<>>
  THEN <<SetText(SetText(diffs, pointer, best.edit), pointer + 1, best.equality2), pointer>>
  ELSE <<Splice(SetText(diffs, pointer, best.edit), pointer + 1, 1, <<>>), pointer - 1>>

lossless_save(diffs, pointer, best) ==
  IF best.equality1 # <<>>
  THEN lossless_saveSecond(SetText(diffs, pointer - 1, best.equality1), pointer, best)
  ELSE lossless_saveSecond(Splice(diffs, pointer - 1, 1, <<>>), pointer - 1, best)

RECURSIVE cleanupSemanticLossless_loop(_, _)

lossless_continue(saved) == cleanupSemanticLossless_loop(saved[1], saved[2] + 1)

lossless_edit(diffs, pointer, best) ==
  IF At(diffs, pointer - 1).text # best.equality1
  THEN lossless_continue(lossless_save(diffs, pointer, best))
  ELSE cleanupSemanticLossless_loop(diffs, pointer + 1)

cleanupSemanticLossless_loop(diffs, pointer) ==
  IF pointer >= Len(diffs) - 1 THEN diffs
  ELSE IF At(diffs, pointer - 1).operation = DIFF_EQUAL
          /\ At(diffs, pointer + 1).operation = DIFF_EQUAL
  THEN lossless_edit(diffs, pointer, lossless_best(diffs, pointer))
  ELSE cleanupSemanticLossless_loop(diffs, pointer + 1)

diff_cleanupSemanticLossless(diffs) == cleanupSemanticLossless_loop(diffs, 1)

\* --- diff_cleanupSemantic ---------------------------------------------------

\* The state of the first loop.  equalities is the JavaScript array used as
\* a stack and equalitiesLength its counter, which the two decrements can
\* take below zero (the array then holds entries at negative indices, and
\* the scan restarts from the first diff).  lastEquality is <<>> for null: a
\* null and an empty lastEquality fail the same test.
SemanticState(diffs, pointer, equalities, equalitiesLength, changes) ==
  [diffs |-> diffs, pointer |-> pointer,
   equalities |-> equalities, equalitiesLength |-> equalitiesLength,
   li1 |-> 0, ld1 |-> 0, li2 |-> 0, ld2 |-> 0,
   lastEquality |-> <<>>, changes |-> changes]

\* An equality is found: push it.
semantic_push(st) ==
  [st EXCEPT !.equalities = (st.equalitiesLength :> st.pointer) @@ @,
             !.equalitiesLength = @ + 1,
             !.li1 = st.li2, !.ld1 = st.ld2,
             !.li2 = 0, !.ld2 = 0,
             !.lastEquality = At(st.diffs, st.pointer).text,
             !.pointer = @ + 1]

\* An insertion or deletion is found: count its characters.
semantic_count(st) ==
  IF At(st.diffs, st.pointer).operation = DIFF_INSERT
  THEN [st EXCEPT !.li2 = @ + Len(At(st.diffs, st.pointer).text)]
  ELSE [st EXCEPT !.ld2 = @ + Len(At(st.diffs, st.pointer).text)]

\* Duplicate the last equality as a deletion, change the second copy to an
\* insertion, throw away that equality and the previous one, and go back.
semantic_eliminate(st) ==
  SemanticState(
    SetOp(Splice(st.diffs, st.equalities[st.equalitiesLength - 1], 0,
                 <<Diff(DIFF_DELETE, st.lastEquality)>>),
          st.equalities[st.equalitiesLength - 1] + 1, DIFF_INSERT),
    (IF st.equalitiesLength - 2 > 0 THEN st.equalities[st.equalitiesLength - 3] ELSE -1) + 1,
    st.equalities, st.equalitiesLength - 2, TRUE)

RECURSIVE cleanupSemantic_loop(_)

\* Eliminate an equality that is smaller or equal to the edits on both
\* sides of it.
semantic_edit(st) ==
  IF st.lastEquality # <<>>
     /\ Len(st.lastEquality) <= Max(st.li1, st.ld1)
     /\ Len(st.lastEquality) <= Max(st.li2, st.ld2)
  THEN cleanupSemantic_loop(semantic_eliminate(st))
  ELSE cleanupSemantic_loop([st EXCEPT !.pointer = @ + 1])

\* Returns <<diffs, changes>>.
cleanupSemantic_loop(st) ==
  IF st.pointer >= Len(st.diffs) THEN <<st.diffs, st.changes>>
  ELSE IF At(st.diffs, st.pointer).operation = DIFF_EQUAL
  THEN cleanupSemantic_loop(semantic_push(st))
  ELSE semantic_edit(semantic_count(st))

\* Overlap found.  Insert an equality and trim the surrounding edits.
overlap_extract(diffs, pointer, deletion, insertion, overlap) ==
  [Splice(diffs, pointer, 0, <<Diff(DIFF_EQUAL, Substring(insertion, 0, overlap))>>)
     EXCEPT ![pointer].text = Substring(deletion, 0, Len(deletion) - overlap),
            ![pointer + 2].text = SubstringFrom(insertion, overlap)]

\* Reverse overlap found.  Insert an equality and swap and trim the
\* surrounding edits.
overlap_extractReverse(diffs, pointer, deletion, insertion, overlap) ==
  [Splice(diffs, pointer, 0, <<Diff(DIFF_EQUAL, Substring(deletion, 0, overlap))>>)
     EXCEPT ![pointer] = Diff(DIFF_INSERT, Substring(insertion, 0, Len(insertion) - overlap)),
            ![pointer + 2] = Diff(DIFF_DELETE, SubstringFrom(deletion, overlap))]

\* Only extract an overlap if it is as big as the edit ahead or behind it.
BigOverlap(overlap, deletion, insertion) ==
  2 * overlap >= Len(deletion) \/ 2 * overlap >= Len(insertion)

RECURSIVE cleanupSemantic_overlaps(_, _)

overlap_pair(diffs, pointer, deletion, insertion, overlap_length1, overlap_length2) ==
  IF overlap_length1 >= overlap_length2 THEN
    IF BigOverlap(overlap_length1, deletion, insertion)
    THEN cleanupSemantic_overlaps(
           overlap_extract(diffs, pointer, deletion, insertion, overlap_length1), pointer + 3)
    ELSE cleanupSemantic_overlaps(diffs, pointer + 2)
  ELSE
    IF BigOverlap(overlap_length2, deletion, insertion)
    THEN cleanupSemantic_overlaps(
           overlap_extractReverse(diffs, pointer, deletion, insertion, overlap_length2),
           pointer + 3)
    ELSE cleanupSemantic_overlaps(diffs, pointer + 2)

\* Last loop of diff_cleanupSemantic: overlaps between a deletion and the
\* insertion that follows it are extracted as equalities.
cleanupSemantic_overlaps(diffs, pointer) ==
  IF pointer >= Len(diffs) THEN diffs
  ELSE IF At(diffs, pointer - 1).operation = DIFF_DELETE
          /\ At(diffs, pointer).operation = DIFF_INSERT
  THEN overlap_pair(diffs, pointer, At(diffs, pointer - 1).text, At(diffs, pointer).text,
                    diff_commonOverlap(At(diffs, pointer - 1).text, At(diffs, pointer).text),
                    diff_commonOverlap(At(diffs, pointer).text, At(diffs, pointer - 1).text))
  ELSE cleanupSemantic_overlaps(diffs, pointer + 1)

\* Normalize the diff.
semantic_normalize(eliminated) ==
  IF eliminated[2] THEN diff_cleanupMerge(eliminated[1]) ELSE eliminated[1]

diff_cleanupSemantic(diffs) ==
  cleanupSemantic_overlaps(
    diff_cleanupSemanticLossless(
      semantic_normalize(cleanupSemantic_loop(SemanticState(diffs, 0, <<>>, 0, FALSE)))),
    1)

\* --- diff_halfMatch ---------------------------------------------------------

NoMatch == <<>>

\* The candidate for the occurrence of the seed at j in shorttext:
\* <<longtext_a, longtext_b, shorttext_a, shorttext_b, common>>.
halfMatch_candidate(longtext, shorttext, i, j, prefixLength, suffixLength) ==
  << Substring(longtext, 0, i - suffixLength),
     SubstringFrom(longtext, i + prefixLength),
     Substring(shorttext, 0, j - suffixLength),
     SubstringFrom(shorttext, j + prefixLength),
     Substring(shorttext, j - suffixLength, j) \o Substring(shorttext, j, j + prefixLength) >>

\* if (best_common.length < suffixLength + prefixLength) ...
halfMatch_better(candidate, best) ==
  IF Len(best[5]) < Len(candidate[5]) THEN candidate ELSE best

RECURSIVE halfMatchI_loop(_, _, _, _, _, _)

halfMatchI_at(longtext, shorttext, i, seed, j, best) ==
  IF j = -1 THEN best
  ELSE halfMatchI_loop(longtext, shorttext, i, seed, j + 1,
         halfMatch_better(
           halfMatch_candidate(longtext, shorttext, i, j,
             diff_commonPrefix(SubstringFrom(longtext, i), SubstringFrom(shorttext, j)),
             diff_commonSuffix(Substring(longtext, 0, i), Substring(shorttext, 0, j))),
           best))

\* The while loop of diff_halfMatchI: every occurrence of the seed in
\* shorttext, in order.
halfMatchI_loop(longtext, shorttext, i, seed, from, best) ==
  halfMatchI_at(longtext, shorttext, i, seed, IndexOfFrom(shorttext, seed, from), best)

halfMatchI_result(longtext, best) ==
  IF Len(best[5]) * 2 >= Len(longtext) THEN best ELSE NoMatch

\* Start with a 1/4 length substring at position i as a seed.
diff_halfMatchI(longtext, shorttext, i) ==
  halfMatchI_result(longtext,
    halfMatchI_loop(longtext, shorttext, i,
                    Substring(longtext, i, i + (Len(longtext) \div 4)), 0,
                    << <<>>, <<>>, <<>>, <<>>, <<>> >>))

\* Math.ceil(n / d) for positive d.
CeilDiv(n, d) == (n + d - 1) \div d

halfMatch_pick(hm1, hm2) ==
  IF hm1 = NoMatch /\ hm2 = NoMatch THEN NoMatch
  ELSE IF hm2 = NoMatch THEN hm1
  ELSE IF hm1 = NoMatch THEN hm2
  ELSE IF Len(hm1[5]) > Len(hm2[5]) THEN hm1 ELSE hm2

\* A half-match was found, sort out the return data.
halfMatch_sort(hm, text1Longer) ==
  IF hm = NoMatch THEN NoMatch
  ELSE IF text1Longer THEN hm
  ELSE <<hm[3], hm[4], hm[1], hm[2], hm[5]>>

halfMatch_of(longtext, shorttext, text1Longer) ==
  IF Len(longtext) < 4 \/ Len(shorttext) * 2 < Len(longtext) THEN NoMatch
  ELSE halfMatch_sort(
         halfMatch_pick(diff_halfMatchI(longtext, shorttext, CeilDiv(Len(longtext), 4)),
                        diff_halfMatchI(longtext, shorttext, CeilDiv(Len(longtext), 2))),
         text1Longer)

\* <<text1_a, text1_b, text2_a, text2_b, mid_common>>, or NoMatch.
diff_halfMatch(text1, text2) ==
  IF Len(text1) > Len(text2)
  THEN halfMatch_of(text1, text2, TRUE)
  ELSE halfMatch_of(text2, text1, FALSE)

\* --- diff_bisect (Myers' middle snake) ------------------------------------

\* Follow the diagonal from (x, y) while the characters agree (front path).
RECURSIVE snake_front(_, _, _, _)
snake_front(text1, text2, x, y) ==
  IF x < Len(text1) /\ y < Len(text2) /\ text1[x + 1] = text2[y + 1]
  THEN snake_front(text1, text2, x + 1, y + 1)
  ELSE x

\* The same from the ends of the texts (reverse path).
RECURSIVE snake_reverse(_, _, _, _)
snake_reverse(text1, text2, x, y) ==
  IF x < Len(text1) /\ y < Len(text2)
     /\ text1[Len(text1) - x] = text2[Len(text2) - y]
  THEN snake_reverse(text1, text2, x + 1, y + 1)
  ELSE x

bisect_max_d(text1, text2) == CeilDiv(Len(text1) + Len(text2), 2)

\* v_offset + k, the index of diagonal k in v1 and v2.
bisect_offset(text1, text2, k) == bisect_max_d(text1, text2) + k

bisect_delta(text1, text2) == Len(text1) - Len(text2)

\* If the total number of characters is odd, the front path collides with
\* the reverse path.
bisect_front(text1, text2) == bisect_delta(text1, text2) % 2 # 0

\* Where the path on diagonal k starts in step d, from the furthest points v
\* of the step before.
bisect_start(v, k_offset, k, d) ==
  IF k = -d \/ (k # d /\ v[k_offset - 1] < v[k_offset + 1])
  THEN v[k_offset + 1]
  ELSE v[k_offset - 1] + 1

\* Whether index k_offset of v holds a point (is in range and not -1).
bisect_reached(text1, text2, v, k_offset) ==
  k_offset >= 0 /\ k_offset < 2 * bisect_max_d(text1, text2) /\ v[k_offset] # -1

\* The loops of diff_bisect.  st holds v1, v2 and the k offsets; phase is
\* "front" or "reverse", k the inner loop's variable.  Returns the split
\* point <<x, y>> where the paths overlap, or <<-1, -1>> when the loop over
\* d ends without one.
RECURSIVE bisect_walk(_, _, _, _, _, _)

\* Walk the front path one step: the path on diagonal k1 ends at x1.
bisect_frontStep(text1, text2, d, k1, st, x1) ==
  IF x1 > Len(text1)
  \* Ran off the right of the graph.
  THEN bisect_walk(text1, text2, d, "front", k1 + 2,
                   [st EXCEPT !.v1[bisect_offset(text1, text2, k1)] = x1, !.k1end = @ + 2])
  ELSE IF x1 - k1 > Len(text2)
  \* Ran off the bottom of the graph.
  THEN bisect_walk(text1, text2, d, "front", k1 + 2,
                   [st EXCEPT !.v1[bisect_offset(text1, text2, k1)] = x1, !.k1start = @ + 2])
  ELSE IF bisect_front(text1, text2)
          /\ bisect_reached(text1, text2, st.v2,
                            bisect_offset(text1, text2, bisect_delta(text1, text2) - k1))
          /\ x1 >= Len(text1)
                   - st.v2[bisect_offset(text1, text2, bisect_delta(text1, text2) - k1)]
  \* Overlap detected.
  THEN <<x1, x1 - k1>>
  ELSE bisect_walk(text1, text2, d, "front", k1 + 2,
                   [st EXCEPT !.v1[bisect_offset(text1, text2, k1)] = x1])

\* The point of the front path on the diagonal the reverse path is on.
bisect_mirror(text1, text2, k2, x1) ==
  <<x1, bisect_max_d(text1, text2) + x1
          - bisect_offset(text1, text2, bisect_delta(text1, text2) - k2)>>

\* Walk the reverse path one step: the path on diagonal k2 ends at x2.
bisect_reverseStep(text1, text2, d, k2, st, x2) ==
  IF x2 > Len(text1)
  \* Ran off the left of the graph.
  THEN bisect_walk(text1, text2, d, "reverse", k2 + 2,
                   [st EXCEPT !.v2[bisect_offset(text1, text2, k2)] = x2, !.k2end = @ + 2])
  ELSE IF x2 - k2 > Len(text2)
  \* Ran off the top of the graph.
  THEN bisect_walk(text1, text2, d, "reverse", k2 + 2,
                   [st EXCEPT !.v2[bisect_offset(text1, text2, k2)] = x2, !.k2start = @ + 2])
  ELSE IF ~bisect_front(text1, text2)
          /\ bisect_reached(text1, text2, st.v1,
                            bisect_offset(text1, text2, bisect_delta(text1, text2) - k2))
          /\ st.v1[bisect_offset(text1, text2, bisect_delta(text1, text2) - k2)]
               >= Len(text1) - x2
  \* Overlap detected.
  THEN bisect_mirror(text1, text2, k2,
                     st.v1[bisect_offset(text1, text2, bisect_delta(text1, text2) - k2)])
  ELSE bisect_walk(text1, text2, d, "reverse", k2 + 2,
                   [st EXCEPT !.v2[bisect_offset(text1, text2, k2)] = x2])

bisect_frontFrom(text1, text2, d, k1, st, x0) ==
  bisect_frontStep(text1, text2, d, k1, st, snake_front(text1, text2, x0, x0 - k1))

bisect_reverseFrom(text1, text2, d, k2, st, x0) ==
  bisect_reverseStep(text1, text2, d, k2, st, snake_reverse(text1, text2, x0, x0 - k2))

bisect_walk(text1, text2, d, phase, k, st) ==
  IF d >= bisect_max_d(text1, text2) THEN <<-1, -1>>
  ELSE IF phase = "front" THEN
    IF k > d - st.k1end
    THEN bisect_walk(text1, text2, d, "reverse", -d + st.k2start, st)
    ELSE bisect_frontFrom(text1, text2, d, k, st,
                          bisect_start(st.v1, bisect_offset(text1, text2, k), k, d))
  ELSE
    IF k > d - st.k2end
    THEN bisect_walk(text1, text2, d + 1, "front", -(d + 1) + st.k1start, st)
    ELSE bisect_reverseFrom(text1, text2, d, k, st,
                            bisect_start(st.v2, bisect_offset(text1, text2, k), k, d))

\* new Array(v_length) filled with -1, and v[v_offset + 1] = 0.
bisect_array(max_d) == [x \in 0..(2 * max_d) |-> IF x = max_d + 1 THEN 0 ELSE -1]

\* The split point diff_bisect hands to diff_bisectSplit.
bisect_point(text1, text2) ==
  bisect_walk(text1, text2, 0, "front", 0,
              [v1 |-> bisect_array(bisect_max_d(text1, text2)),
               v2 |-> bisect_array(bisect_max_d(text1, text2)),
               k1start |-> 0, k1end |-> 0, k2start |-> 0, k2end |-> 0])

\* --- diff_main ---------------------------------------------------------------

RECURSIVE diff_main(_, _)

diff_bisectSplit(text1, text2, x, y) ==
  diff_main(Substring(text1, 0, x), Substring(text2, 0, y))
    \o diff_main(SubstringFrom(text1, x), SubstringFrom(text2, y))

bisect_split(text1, text2, point) ==
  IF point[1] = -1
  \* The number of diffs equals the number of characters: no commonality.
  THEN <<Diff(DIFF_DELETE, text1), Diff(DIFF_INSERT, text2)>>
  ELSE diff_bisectSplit(text1, text2, point[1], point[2])

diff_bisect(text1, text2) == bisect_split(text1, text2, bisect_point(text1, text2))

\* Check to see if the problem can be split in two.
compute_split(text1, text2, hm) ==
  IF hm # NoMatch
  THEN diff_main(hm[1], hm[3]) \o <<Diff(DIFF_EQUAL, hm[5])>> \o diff_main(hm[2], hm[4])
  ELSE diff_bisect(text1, text2)

\* The shorter text is inside the longer text at i: op is what turns the
\* shorter into the longer, seen from text1.
compute_inside(longtext, shorttext, i, op) ==
  << Diff(op, Substring(longtext, 0, i)),
     Diff(DIFF_EQUAL, shorttext),
     Diff(op, SubstringFrom(longtext, i + Len(shorttext))) >>

compute_texts(text1, text2, longtext, shorttext, i) ==
  IF i # -1
  THEN compute_inside(longtext, shorttext, i,
                      IF Len(text1) > Len(text2) THEN DIFF_DELETE ELSE DIFF_INSERT)
  ELSE IF Len(shorttext) = 1
  \* Single character string: it cannot be an equality.
  THEN <<Diff(DIFF_DELETE, text1), Diff(DIFF_INSERT, text2)>>
  ELSE compute_split(text1, text2, diff_halfMatch(text1, text2))

diff_compute(text1, text2) ==
  IF text1 = <<>> THEN <<Diff(DIFF_INSERT, text2)>>
  ELSE IF text2 = <<>> THEN <<Diff(DIFF_DELETE, text1)>>
  ELSE IF Len(text1) > Len(text2)
  THEN compute_texts(text1, text2, text1, text2, IndexOf(text1, text2))
  ELSE compute_texts(text1, text2, text2, text1, IndexOf(text2, text1))

\* Restore the prefix and suffix.
main_restore(commonprefix, middle, commonsuffix) ==
  (IF commonprefix # <<>> THEN <<Diff(DIFF_EQUAL, commonprefix)>> ELSE <<>>)
  \o middle
  \o (IF commonsuffix # <<>> THEN <<Diff(DIFF_EQUAL, commonsuffix)>> ELSE <<>>)

\* Trim off the common suffix and compute the diff on the middle block.
main_middle(commonprefix, text1, text2, commonlength) ==
  diff_cleanupMerge(
    main_restore(commonprefix,
                 diff_compute(Substring(text1, 0, Len(text1) - commonlength),
                              Substring(text2, 0, Len(text2) - commonlength)),
                 SubstringFrom(text1, Len(text1) - commonlength)))

main_suffix(commonprefix, text1, text2) ==
  main_middle(commonprefix, text1, text2, diff_commonSuffix(text1, text2))

\* Trim off the common prefix.
main_prefix(text1, text2, commonlength) ==
  main_suffix(Substring(text1, 0, commonlength),
              SubstringFrom(text1, commonlength), SubstringFrom(text2, commonlength))

diff_main(text1, text2) ==
  IF text1 = text2
  THEN (IF text1 # <<>> THEN <<Diff(DIFF_EQUAL, text1)>> ELSE <<>>)
  ELSE main_prefix(text1, text2, diff_commonPrefix(text1, text2))

\* ------------------------------------------------------------------------
\* timeline.tsx: the two diff functions
\* ------------------------------------------------------------------------

RECURSIVE SumLengths(_, _)
\* The for loop of calculateDiff: total length of the texts tagged op.
SumLengths(diffs, op) ==
  IF diffs = <<>> THEN 0
  ELSE (IF Head(diffs).operation = op THEN Len(Head(diffs).text) ELSE 0)
       + SumLengths(Tail(diffs), op)

\* Mutant of calculateDiff: the coarse length-difference heuristic instead of
\* the counts of the diff.
calculateDiff_lengthHeuristic(oldContent, newContent) ==
  [added |-> Max(Len(newContent) - Len(oldContent), 0),
   deleted |-> Max(Len(oldContent) - Len(newContent), 0)]

\* Count added and deleted characters from diff results.
countDiffs(diffs) ==
  [added |-> SumLengths(diffs, DIFF_INSERT), deleted |-> SumLengths(diffs, DIFF_DELETE)]

calculateDiff(oldContent, newContent) ==
  IF oldContent = <<>> THEN [added |-> Len(newContent), deleted |-> 0]
  ELSE IF newContent = <<>> THEN [added |-> 0, deleted |-> Len(oldContent)]
  ELSE IF oldContent = newContent THEN [added |-> 0, deleted |-> 0]
  ELSE countDiffs(diff_cleanupSemantic(diff_main(oldContent, newContent)))

\* Mutant of renderDiff: the empty-text shortcuts test the other argument.
renderDiff_wrongShortcut(oldContent, newContent) ==
  IF newContent = <<>> THEN <<Diff(DIFF_INSERT, newContent)>>
  ELSE IF oldContent = <<>> THEN <<Diff(DIFF_DELETE, oldContent)>>
  ELSE diff_cleanupSemantic(diff_main(oldContent, newContent))

\* Mutant of renderDiff: the two texts are handed to diff_main in the wrong
\* order.
renderDiff_swapped(oldContent, newContent) ==
  IF oldContent = <<>> THEN <<Diff(DIFF_INSERT, newContent)>>
  ELSE IF newContent = <<>> THEN <<Diff(DIFF_DELETE, oldContent)>>
  ELSE diff_cleanupSemantic(diff_main(newContent, oldContent))

renderDiff(oldContent, newContent) ==
  IF oldContent = <<>> THEN <<Diff(DIFF_INSERT, newContent)>>
  ELSE IF newContent = <<>> THEN <<Diff(DIFF_DELETE, oldContent)>>
  ELSE diff_cleanupSemantic(diff_main(oldContent, newContent))

\* ------------------------------------------------------------------------
\* timeline.tsx: what the diff view displays
\* ------------------------------------------------------------------------

\* lines.map((line, lineIdx) => lineIdx < lines.length - 1
\*                               ? `${marker}${line}\n` : `${marker}${line}`)
\* Mutant of MarkedLines: a trailing empty line is not displayed.
MarkedLines_dropTrailingEmpty(marker, lines) ==
  IF Len(lines) > 1 /\ lines[Len(lines)] = <<>>
  THEN [lineIdx \in 1..(Len(lines) - 1) |->
          IF lineIdx < Len(lines) - 1
          THEN <<marker>> \o lines[lineIdx] \o <<NL>>
          ELSE <<marker>> \o lines[lineIdx]]
  ELSE [lineIdx \in 1..Len(lines) |->
          IF lineIdx < Len(lines)
          THEN <<marker>> \o lines[lineIdx] \o <<NL>>
          ELSE <<marker>> \o lines[lineIdx]]

MarkedLines(marker, lines) ==
  [lineIdx \in 1..Len(lines) |->
     IF lineIdx < Len(lines)
     THEN <<marker>> \o lines[lineIdx] \o <<NL>>
     ELSE <<marker>> \o lines[lineIdx]]

\* The <span> one segment of renderDiff becomes: its colour follows the
\* operation, its children are the marked lines (or the text, unchanged).
SegmentSpan(segment) ==
  IF segment.operation = DIFF_INSERT
  THEN [operation |-> DIFF_INSERT, children |-> MarkedLines("+", Split(segment.text))]
  ELSE IF segment.operation = DIFF_DELETE
  THEN [operation |-> DIFF_DELETE, children |-> MarkedLines("-", Split(segment.text))]
  ELSE [operation |-> DIFF_EQUAL, children |-> <<segment.text>>]

\* renderDiff(prevContent, content).map(segment => <span>...</span>)
DiffSpans(segments) == [i \in 1..Len(segments) |-> SegmentSpan(segments[i])]

\* content.split('\n').map(line => <div>+{line}</div>), inside the green <div>.
FallbackLines(content) ==
  LET lines == Split(content)
  IN [i \in 1..Len(lines) |->
        [operation |-> DIFF_INSERT, children |-> <<<<"+">> \o lines[i]>>]]

\* ------------------------------------------------------------------------
\* State
\* ------------------------------------------------------------------------

VARIABLES
  history,          \* the history prop: oids, newest first
  historyRefs,      \* how many history array references the prop has held
  store,            \* what getPastState(oid) resolves to, per oid
  batches,          \* every run of loadCommitData, in the order started
  commitContents,   \* useState: oid -> content
  commitDiffs,      \* useState: oid -> {added, deleted}
  expandedCommits,  \* useState: set of oids
  lastWriter,       \* the batch whose setCommitContents/setCommitDiffs ran last (0: none)
  diffCalls,        \* <<older oid, oid>> pairs that batch gave to calculateDiff
  oldContent,       \* SpecDiff: the arguments
  newContent,
  summary,          \* SpecDiff: result of calculateDiff
  segments,         \* SpecDiff: result of renderDiff
  spans,            \* SpecDiff: the spans displayed for segments
  called,           \* SpecDiff: which of the three have run
  editorValue,      \* page.tsx: useState(initialValue)
  plateValue,       \* page.tsx: the value the Plate editor holds
  fileContent,      \* page.tsx: content of useLegitFile, as last set
  isRollingBackRef, \* page.tsx: isRollingBackRef.current
  pendingRollbacks, \* page.tsx: onRollback calls waiting for getPastState
  rollbackCount,    \* page.tsx: how many onRollback calls were made
  timers,           \* page.tsx: rollbacks whose 100 ms timeout is pending, in order
  lastOp            \* page.tsx: the handler that ran last

timelineVars == <<history, historyRefs, store, batches, commitContents, commitDiffs,
                  expandedCommits, lastWriter, diffCalls>>
diffVars == <<oldContent, newContent, summary, segments, spans, called>>
pageVars == <<editorValue, plateValue, fileContent, isRollingBackRef,
              pendingRollbacks, rollbackCount, timers, lastOp>>
vars == <<timelineVars, diffVars, pageVars>>

Oids == 1..NumOids

\* The empty Record<string, ...>.
EmptyRecord == [o \in {} |-> <<>>]

\* getPastState resolves to a string or to null.
Absent == [present |-> FALSE, text |-> <<>>]
Content(text) == [present |-> TRUE, text |-> text]

\* The snapshots a commit can hold: none, the empty text, and two texts that
\* differ by a line break.
SnapshotTexts == {<<>>, <<"a", "b">>, <<"a", NL, "b">>}
Snapshots == {Absent} \cup {Content(t) : t \in SnapshotTexts}

\* The history with k commits: oid k is the newest, oid 1 the oldest.
HistoryOf(k) == [j \in 1..k |-> k + 1 - j]

\* JavaScript truthiness of contents[oid]: undefined and "" are falsy.
Truthy(rec, oid) == oid \in DOMAIN rec /\ rec[oid] # <<>>

\* rec[oid] = value
Put(rec, oid, value) == [o \in DOMAIN rec \cup {oid} |-> IF o = oid THEN value ELSE rec[o]]

\* ------------------------------------------------------------------------
\* timeline.tsx: loadCommitData
\* ------------------------------------------------------------------------

\* A run of loadCommitData at its first await: i is the index of the entry
\* whose getPastState is pending, contents the local record, calls the oids
\* getPastState has been invoked with so far, in order, failed whether one
\* of these invocations has rejected.
NewBatch(h) ==
  [hist |-> h, i |-> Len(h) - 1, contents |-> EmptyRecord, status |-> "fetching",
   calls |-> <<h[Len(h)]>>, failed |-> FALSE]

\* if (content) contents[commit.oid] = content
StoreContent(contents, oid, result) ==
  IF result.present /\ result.text # <<>>
  THEN Put(contents, oid, result.text)
  ELSE contents

\* Mutant of DiffOfEntry: the entry is compared with the older one the wrong
\* way round.
DiffOfEntry_swapped(hist, contents, i) ==
  LET content == contents[hist[i + 1]] IN
  IF i < Len(hist) - 1
  THEN LET prevOid == hist[i + 2] IN
       IF Truthy(contents, prevOid)
       THEN calculateDiff(content, contents[prevOid])
       ELSE [added |-> Len(content), deleted |-> 0]
  ELSE [added |-> Len(content), deleted |-> 0]

\* Mutant of DiffOfEntry: no fully-added fallback when the older entry has
\* no content.
DiffOfEntry_noFallback(hist, contents, i) ==
  LET content == contents[hist[i + 1]] IN
  IF i < Len(hist) - 1
  THEN LET prevOid == hist[i + 2] IN
       IF Truthy(contents, prevOid)
       THEN calculateDiff(contents[prevOid], content)
       ELSE [added |-> 0, deleted |-> 0]
  ELSE [added |-> Len(content), deleted |-> 0]

\* The summary the diff loop gives the entry at index i, whose content is
\* truthy: against the next older entry (index i + 1) when that one has
\* content, fully added otherwise and for the oldest entry.
DiffOfEntry(hist, contents, i) ==
  LET content == contents[hist[i + 1]] IN
  IF i < Len(hist) - 1
  THEN LET prevOid == hist[i + 2] IN
       IF Truthy(contents, prevOid)
       THEN calculateDiff(contents[prevOid], content)
       ELSE [added |-> Len(content), deleted |-> 0]
  ELSE [added |-> Len(content), deleted |-> 0]

\* for (let i = 0; i < history.length; i++) { if (!content) continue; ... }
RECURSIVE diffLoop(_, _, _, _)
diffLoop(hist, contents, i, diffs) ==
  IF i >= Len(hist) THEN diffs
  ELSE IF ~Truthy(contents, hist[i + 1]) THEN diffLoop(hist, contents, i + 1, diffs)
  ELSE diffLoop(hist, contents, i + 1,
                Put(diffs, hist[i + 1], DiffOfEntry(hist, contents, i)))

\* The pairs <<older oid, oid>> the diff loop hands to calculateDiff.
DiffCallsOf(hist, contents) ==
  {<<hist[i + 2], hist[i + 1]>> : i \in {j \in 0..(Len(hist) - 2) :
       Truthy(contents, hist[j + 1]) /\ Truthy(contents, hist[j + 2])}}

\* Mutant of StartBatch: the effect compares the history by value, so a
\* reloaded history with the same commits starts no run.
StartBatch_byValue(h) ==
  /\ Len(batches) < MaxBatches
  /\ historyRefs < MaxBatches
  /\ history' = h
  /\ historyRefs' = historyRefs + 1
  /\ batches' = IF h = history THEN batches ELSE Append(batches, NewBatch(h))
  /\ UNCHANGED <<store, commitContents, commitDiffs, expandedCommits,
                 lastWriter, diffCalls, diffVars, pageVars>>

\* useEffect(() => { loadCommitData() }, [history]): a new history
\* reference starts a run; runs already in flight are left alone.
StartBatch(h) ==
  /\ Len(batches) < MaxBatches
  /\ history' = h
  /\ historyRefs' = historyRefs + 1
  /\ batches' = Append(batches, NewBatch(h))
  /\ UNCHANGED <<store, commitContents, commitDiffs, expandedCommits,
                 lastWriter, diffCalls, diffVars, pageVars>>

\* The history the page passes grows by one commit (the new one is first).
NewCommit ==
  /\ Len(history) < NumOids
  /\ StartBatch(<<Len(history) + 1>> \o history)

\* The history is reloaded: the same commits in a new array.
Reload == StartBatch(history)

\* Run B after its pending getPastState has resolved: the content is stored
\* if there is any, and the run is at its next await (the next newer entry)
\* or, after the newest entry, through to its end.
ResolvedRun(B) ==
  IF B.i - 1 >= 0
  THEN [B EXCEPT !.i = B.i - 1,
                 !.contents = StoreContent(B.contents, B.hist[B.i + 1], store[B.hist[B.i + 1]]),
                 !.calls = Append(B.calls, B.hist[B.i])]
  ELSE [B EXCEPT !.i = B.i - 1,
                 !.contents = StoreContent(B.contents, B.hist[B.i + 1], store[B.hist[B.i + 1]]),
                 !.status = "applied"]

\* The pending getPastState of run b resolves.  The run continues to its
\* next await, or, after the oldest-to-newest loop's last entry, through the
\* diff loop and the two setState calls.
FetchResolve(b) ==
  /\ batches[b].status = "fetching"
  /\ LET B == batches[b]
         contents == ResolvedRun(B).contents
     IN IF B.i - 1 >= 0
        THEN /\ batches' = [batches EXCEPT ![b] = ResolvedRun(B)]
             /\ UNCHANGED <<commitContents, commitDiffs, lastWriter, diffCalls>>
        ELSE /\ batches' = [batches EXCEPT ![b] = ResolvedRun(B)]
             /\ commitContents' = contents
             /\ commitDiffs' = diffLoop(B.hist, contents, 0, EmptyRecord)
             /\ lastWriter' = b
             /\ diffCalls' = DiffCallsOf(B.hist, contents)
  /\ UNCHANGED <<history, historyRefs, store, expandedCommits, diffVars, pageVars>>

\* Mutant of FetchReject: the rejection is caught and the entry treated as
\* one without content; the run goes on and writes what it has.
FetchReject_swallow(b) ==
  /\ batches[b].status = "fetching"
  /\ LET B == batches[b] IN
     IF B.i - 1 >= 0
     THEN /\ batches' = [batches EXCEPT ![b] = [B EXCEPT !.i = B.i - 1,
                                                         !.failed = TRUE,
                                                         !.calls = Append(B.calls, B.hist[B.i])]]
          /\ UNCHANGED <<commitContents, commitDiffs, lastWriter, diffCalls>>
     ELSE /\ batches' = [batches EXCEPT ![b] = [B EXCEPT !.i = B.i - 1,
                                                         !.failed = TRUE,
                                                         !.status = "applied"]]
          /\ commitContents' = B.contents
          /\ commitDiffs' = diffLoop(B.hist, B.contents, 0, EmptyRecord)
          /\ lastWriter' = b
          /\ diffCalls' = DiffCallsOf(B.hist, B.contents)
  /\ UNCHANGED <<history, historyRefs, store, expandedCommits, diffVars, pageVars>>

\* The pending getPastState of run b rejects: the await throws, the run's
\* promise rejects, and nothing after the await is executed.
FetchReject(b) ==
  /\ batches[b].status = "fetching"
  /\ batches' = [batches EXCEPT ![b].status = "rejected", ![b].failed = TRUE]
  /\ UNCHANGED <<history, historyRefs, store, commitContents, commitDiffs,
                 expandedCommits, lastWriter, diffCalls, diffVars, pageVars>>

\* Mutant of toggleCommit: expanding or collapsing an entry also starts a
\* run of loadCommitData.
toggleCommit_refetch(commitOid) ==
  /\ \E j \in 1..Len(history) : history[j] = commitOid
  /\ expandedCommits' = IF commitOid \in expandedCommits
                        THEN expandedCommits \ {commitOid}
                        ELSE expandedCommits \cup {commitOid}
  /\ batches' = IF Len(batches) < MaxBatches
                THEN Append(batches, NewBatch(history))
                ELSE batches
  /\ UNCHANGED <<history, historyRefs, store, commitContents,
                 commitDiffs, lastWriter, diffCalls, diffVars, pageVars>>

\* The expand/collapse button of a displayed entry.
toggleCommit(commitOid) ==
  /\ \E j \in 1..Len(history) : history[j] = commitOid
  /\ expandedCommits' = IF commitOid \in expandedCommits
                        THEN expandedCommits \ {commitOid}
                        ELSE expandedCommits \cup {commitOid}
  /\ UNCHANGED <<history, historyRefs, store, batches, commitContents,
                 commitDiffs, lastWriter, diffCalls, diffVars, pageVars>>

\* Mutant of EntryView: the previous commit is taken from the newer side
\* (index - 1) instead of the older one.
EntryView_prevNewer(index) ==
  LET oid == history[index + 1]
      hasPrev == index > 0 /\ Truthy(commitContents, history[index])
  IN IF oid \in expandedCommits /\ Truthy(commitContents, oid)
     THEN IF hasPrev
          THEN [mode |-> "diff",
                lines |-> DiffSpans(renderDiff(commitContents[history[index]],
                                               commitContents[oid]))]
          ELSE [mode |-> "fallback", lines |-> FallbackLines(commitContents[oid])]
     ELSE [mode |-> "hidden", lines |-> <<>>]

\* What the entry at index (0 = newest) shows under "Diff view".
EntryView(index) ==
  LET oid == history[index + 1]
      hasPrev == index < Len(history) - 1
                 /\ Truthy(commitContents, history[index + 2])
  IN IF oid \in expandedCommits /\ Truthy(commitContents, oid)
     THEN IF hasPrev
          THEN [mode |-> "diff",
                lines |-> DiffSpans(renderDiff(commitContents[history[index + 2]],
                                               commitContents[oid]))]
          ELSE [mode |-> "fallback", lines |-> FallbackLines(commitContents[oid])]
     ELSE [mode |-> "hidden", lines |-> <<>>]

\* ------------------------------------------------------------------------
\* page.tsx: the editor page
\* ------------------------------------------------------------------------

\* calculateDiff and renderDiff have not been called.
DiffIdle ==
  /\ oldContent = <<>>
  /\ newContent = <<>>
  /\ summary = [added |-> 0, deleted |-> 0]
  /\ segments = <<>>
  /\ spans = <<>>
  /\ called = {}

\* The editor values: initialValue and one the user types.
initialValue == <<"a">>
Docs == {initialValue, <<"b">>}

\* JSON.stringify and JSON.parse of an editor value.
Stringify(value) == <<"[">> \o value \o <<"]">>
Parse(text) == SubSeq(text, 2, Len(text) - 1)

\* What getPastState resolves to on the page: null, the empty string, or
\* a saved editor value.
PageSnapshots == {Absent, Content(<<>>)} \cup {Content(Stringify(d)) : d \in Docs}

\* The page as mounted, no handler run yet.
PageIdle ==
  /\ editorValue = initialValue
  /\ plateValue = initialValue
  /\ fileContent = Stringify(initialValue)
  /\ isRollingBackRef = FALSE
  /\ pendingRollbacks = {}
  /\ rollbackCount = 0
  /\ timers = <<>>
  /\ lastOp = "mount"

\* Plate onChange: the editor's value has changed to value.
onChange(value) ==
  /\ plateValue' = value
  /\ editorValue' = IF ~isRollingBackRef THEN value ELSE editorValue
  /\ lastOp' = "onChange"
  /\ UNCHANGED <<fileContent, isRollingBackRef, pendingRollbacks, rollbackCount, timers>>
  /\ UNCHANGED <<timelineVars, diffVars>>

\* The Save button.
Save ==
  /\ fileContent' = Stringify(editorValue)
  /\ lastOp' = "save"
  /\ UNCHANGED <<editorValue, plateValue, isRollingBackRef, pendingRollbacks,
                 rollbackCount, timers>>
  /\ UNCHANGED <<timelineVars, diffVars>>

\* onRollback(oid) up to its await getPastState(oid).
onRollback(oid) ==
  /\ rollbackCount < MaxRollbacks
  /\ \E j \in 1..Len(history) : history[j] = oid
  /\ rollbackCount' = rollbackCount + 1
  /\ pendingRollbacks' = pendingRollbacks \cup {[id |-> rollbackCount + 1, oid |-> oid]}
  /\ lastOp' = "onRollback"
  /\ UNCHANGED <<editorValue, plateValue, fileContent, isRollingBackRef, timers>>
  /\ UNCHANGED <<timelineVars, diffVars>>

\* getPastState of rollback r resolves: with content, the editor, the state
\* and the file are set to it, the flag is raised and a timeout is set to
\* lower it; without content nothing is done.
RollbackResolve(r) ==
  /\ r \in pendingRollbacks
  /\ pendingRollbacks' = pendingRollbacks \ {r}
  /\ IF store[r.oid].present /\ store[r.oid].text # <<>>
     THEN /\ isRollingBackRef' = TRUE
          /\ plateValue' = Parse(store[r.oid].text)
          /\ editorValue' = Parse(store[r.oid].text)
          /\ fileContent' = store[r.oid].text
          /\ timers' = Append(timers, r.id)
          /\ lastOp' = "rollback"
     ELSE /\ lastOp' = "rollbackAbsent"
          /\ UNCHANGED <<isRollingBackRef, plateValue, editorValue, fileContent, timers>>
  /\ UNCHANGED rollbackCount
  /\ UNCHANGED <<timelineVars, diffVars>>

\* getPastState of rollback r rejects: onRollback ends at the await.
RollbackReject(r) ==
  /\ r \in pendingRollbacks
  /\ pendingRollbacks' = pendingRollbacks \ {r}
  /\ lastOp' = "rollbackRejected"
  /\ UNCHANGED <<editorValue, plateValue, fileContent, isRollingBackRef,
                 rollbackCount, timers>>
  /\ UNCHANGED <<timelineVars, diffVars>>

\* The oldest pending timeout fires, 100 ms after it was set.
TimeoutFires ==
  /\ timers # <<>>
  /\ isRollingBackRef' = FALSE
  /\ timers' = Tail(timers)
  /\ lastOp' = "timeout"
  /\ UNCHANGED <<editorValue, plateValue, fileContent, pendingRollbacks, rollbackCount>>
  /\ UNCHANGED <<timelineVars, diffVars>>

\* The page with a history to roll back to; the Timeline's own state is
\* left out.
InitPage ==
  /\ history = HistoryOf(NumOids)
  /\ historyRefs = 0
  /\ store \in [Oids -> PageSnapshots]
  /\ batches = <<>>
  /\ commitContents = EmptyRecord
  /\ commitDiffs = EmptyRecord
  /\ expandedCommits = {}
  /\ lastWriter = 0
  /\ diffCalls = {}
  /\ DiffIdle
  /\ PageIdle

NextPage ==
  \/ \E value \in Docs : onChange(value)
  \/ Save
  \/ \E oid \in Oids : onRollback(oid)
  \/ \E r \in pendingRollbacks : RollbackResolve(r)
  \/ \E r \in pendingRollbacks : RollbackReject(r)
  \/ TimeoutFires

SpecPage == InitPage /\ [][NextPage]_vars

\* ------------------------------------------------------------------------
\* Specification of the Timeline component
\* ------------------------------------------------------------------------

\* The Timeline is mounted with a non-empty history (page.tsx shows it only
\* then) and its effect has started the first run.
Init ==
  /\ \E k \in 1..NumOids : history = HistoryOf(k)
  /\ historyRefs = 1
  /\ store \in [Oids -> Snapshots]
  /\ batches = <<NewBatch(history)>>
  /\ commitContents = EmptyRecord
  /\ commitDiffs = EmptyRecord
  /\ expandedCommits = {}
  /\ lastWriter = 0
  /\ diffCalls = {}
  /\ DiffIdle
  /\ PageIdle

Next ==
  \/ NewCommit
  \/ Reload
  \/ \E b \in 1..Len(batches) : FetchResolve(b)
  \/ \E b \in 1..Len(batches) : FetchReject(b)
  \/ \E oid \in Oids : toggleCommit(oid)

Spec == Init /\ [][Next]_vars

\* The steps of FetchResolve(b), told by what they do to the run's record.
RunResolves(b) ==
  /\ b \in DOMAIN batches
  /\ batches[b].status = "fetching"
  /\ batches' = [batches EXCEPT ![b] = ResolvedRun(batches[b])]

\* Every getPastState promise of every started run is eventually settled:
\* a run that waits for a fetch does not wait forever.
FetchFairness ==
  \A b \in 1..MaxBatches : WF_batches(RunResolves(b))

SpecFair == Init /\ [][Next]_vars /\ FetchFairness

\* ------------------------------------------------------------------------
\* Specification of the diff functions on their own
\* ------------------------------------------------------------------------

TimelineIdle ==
  /\ history = <<>>
  /\ historyRefs = 0
  /\ store = [o \in Oids |-> Absent]
  /\ batches = <<>>
  /\ commitContents = EmptyRecord
  /\ commitDiffs = EmptyRecord
  /\ expandedCommits = {}
  /\ lastWriter = 0
  /\ diffCalls = {}

InitDiff ==
  /\ oldContent \in Strings
  /\ newContent \in Strings
  /\ summary = [added |-> 0, deleted |-> 0]
  /\ segments = <<>>
  /\ spans = <<>>
  /\ called = {}
  /\ TimelineIdle
  /\ PageIdle

CallCalculateDiff ==
  /\ "calculateDiff" \notin called
  /\ summary' = calculateDiff(oldContent, newContent)
  /\ called' = called \cup {"calculateDiff"}
  /\ UNCHANGED <<oldContent, newContent, segments, spans, timelineVars, pageVars>>

CallRenderDiff ==
  /\ "renderDiff" \notin called
  /\ segments' = renderDiff(oldContent, newContent)
  /\ called' = called \cup {"renderDiff"}
  /\ UNCHANGED <<oldContent, newContent, summary, spans, timelineVars, pageVars>>

\* The segments are displayed (the map over renderDiff's result).
DisplaySegments ==
  /\ "renderDiff" \in called
  /\ "display" \notin called
  /\ spans' = DiffSpans(segments)
  /\ called' = called \cup {"display"}
  /\ UNCHANGED <<oldContent, newContent, summary, segments, timelineVars, pageVars>>

NextDiff ==
  \/ CallCalculateDiff
  \/ CallRenderDiff
  \/ DisplaySegments

SpecDiff == InitDiff /\ [][NextDiff]_vars

\* ------------------------------------------------------------------------
\* Properties
\* ------------------------------------------------------------------------

\* The history of the run that wrote commitContents and commitDiffs last.
WriterHistory == batches[lastWriter].hist

\* getPastState(oid) resolves to a non-empty string.
HasContent(oid) == store[oid].present /\ store[oid].text # <<>>

\* Number of line breaks in text.
CountNL(text) == Cardinality({i \in 1..Len(text) : text[i] = NL})

RECURSIVE JoinLines(_)
\* The lines joined by line breaks.
JoinLines(lines) ==
  IF Len(lines) = 1 THEN lines[1]
  ELSE lines[1] \o <<NL>> \o JoinLines(Tail(lines))

RECURSIVE ConcatTexts(_, _)
\* The texts of the segments whose operation is in ops, concatenated in order.
ConcatTexts(segs, ops) ==
  IF segs = <<>> THEN <<>>
  ELSE (IF Head(segs).operation \in ops THEN Head(segs).text ELSE <<>>)
       \o ConcatTexts(Tail(segs), ops)

\* What a displayed child shows after its marker: the line, without the
\* line break that ends every child but the last.
LineContent(children, l) ==
  IF l < Len(children)
  THEN SubSeq(children[l], 2, Len(children[l]) - 1)
  ELSE SubSeq(children[l], 2, Len(children[l]))

\* The children are k+1 lines for a text with k line breaks, each starts
\* with the marker, every one but the last ends with a line break, and
\* their contents joined by line breaks are the text.
DisplaysLinesOf(children, marker, text) ==
  /\ Len(children) = CountNL(text) + 1
  /\ \A l \in 1..Len(children) :
       /\ Len(children[l]) >= 1
       /\ children[l][1] = marker
       /\ l < Len(children) => /\ Len(children[l]) >= 2
                               /\ children[l][Len(children[l])] = NL
       /\ CountNL(LineContent(children, l)) = 0
  /\ JoinLines([l \in 1..Len(children) |-> LineContent(children, l)]) = text
  /\ (text # <<>> /\ text[Len(text)] = NL) => children[Len(children)] = <<marker>>

\* C1: a run of loadCommitData that is not the most recently started one
\* never writes commitContents or commitDiffs: whenever the state is
\* written, the writer is the latest run.  (The code has no such guard.)
C1_StaleBatchNeverWrites ==
  [][lastWriter' # lastWriter => lastWriter' = Len(batches')]_vars

\* C2: when a run completes and every entry of its history has content, the
\* summary of the entry at position i is calculateDiff(content of entry
\* i+1, content of entry i), and the summary of the oldest entry is
\* {added: length of its content, deleted: 0}.
C2_PairedSummaries ==
  (lastWriter # 0 /\ \A j \in 1..Len(WriterHistory) : HasContent(WriterHistory[j]))
  => /\ \A j \in 1..(Len(WriterHistory) - 1) :
          /\ WriterHistory[j] \in DOMAIN commitDiffs
          /\ commitDiffs[WriterHistory[j]]
               = calculateDiff(store[WriterHistory[j + 1]].text, store[WriterHistory[j]].text)
     /\ WriterHistory[Len(WriterHistory)] \in DOMAIN commitDiffs
     /\ commitDiffs[WriterHistory[Len(WriterHistory)]]
          = [added |-> Len(store[WriterHistory[Len(WriterHistory)]].text), deleted |-> 0]

\* C2 witness: a run over two entries with different contents has written.
C2_Witness ==
  /\ lastWriter # 0
  /\ Len(WriterHistory) >= 2
  /\ \A j \in 1..Len(WriterHistory) : HasContent(WriterHistory[j])
  /\ store[WriterHistory[1]].text # store[WriterHistory[2]].text

\* C3: when getPastState resolves to null for the entry at position i+1 and
\* to content for the entry at position i, the summary of entry i is
\* {added: length of its content, deleted: 0}, and the absent entry has no
\* content, no summary and is in no pair given to calculateDiff.
C3_AbsentPredecessorFallback ==
  lastWriter # 0
  => \A j \in 1..(Len(WriterHistory) - 1) :
       (~store[WriterHistory[j + 1]].present /\ HasContent(WriterHistory[j]))
       => /\ WriterHistory[j] \in DOMAIN commitDiffs
          /\ commitDiffs[WriterHistory[j]]
               = [added |-> Len(store[WriterHistory[j]].text), deleted |-> 0]
          /\ WriterHistory[j + 1] \notin DOMAIN commitContents
          /\ WriterHistory[j + 1] \notin DOMAIN commitDiffs
          /\ \A p \in diffCalls : p[1] # WriterHistory[j + 1] /\ p[2] # WriterHistory[j + 1]

\* C3 witness: a run has written whose history holds an entry with content
\* just before an absent one.
C3_Witness ==
  /\ lastWriter # 0
  /\ \E j \in 1..(Len(WriterHistory) - 1) :
       ~store[WriterHistory[j + 1]].present /\ HasContent(WriterHistory[j])

\* C4: after a run completes without an accessor failure, every entry of
\* its history has a summary in commitDiffs, also the entries whose own
\* content is absent or empty.  (The code skips those entries.)
C4_EveryEntryHasSummary ==
  lastWriter # 0
  => \A j \in 1..Len(WriterHistory) : WriterHistory[j] \in DOMAIN commitDiffs

\* C5: renderDiff(s, s) is a single Equal segment with text s, or no
\* segment when s is empty, and calculateDiff(s, s) is {0, 0}.  (The code
\* returns one Insert segment with empty text for two empty texts.)
C5_IdenticalTexts ==
  oldContent = newContent
  => /\ "renderDiff" \in called
          => segments = IF oldContent = <<>> THEN <<>>
                        ELSE <<Diff(DIFF_EQUAL, oldContent)>>
     /\ "calculateDiff" \in called => summary = [added |-> 0, deleted |-> 0]

\* C6: when exactly one of the two texts is empty, renderDiff yields one
\* segment holding the whole other text, Insert when the old text is the
\* empty one and Delete when the new one is, and calculateDiff counts its
\* length as added, respectively deleted, and 0 for the other.
C6_OneEmptyText ==
  /\ (oldContent = <<>> /\ newContent # <<>>)
     => /\ "renderDiff" \in called => segments = <<Diff(DIFF_INSERT, newContent)>>
        /\ "calculateDiff" \in called
             => summary = [added |-> Len(newContent), deleted |-> 0]
  /\ (newContent = <<>> /\ oldContent # <<>>)
     => /\ "renderDiff" \in called => segments = <<Diff(DIFF_DELETE, oldContent)>>
        /\ "calculateDiff" \in called
             => summary = [added |-> 0, deleted |-> Len(oldContent)]

\* C6 witness: both functions have run on a non-empty old text and an empty
\* new text.
C6_Witness ==
  /\ newContent = <<>>
  /\ Len(oldContent) >= 2
  /\ {"renderDiff", "calculateDiff"} \subseteq called

\* C7: for every pair of texts, calculateDiff's added is the total length
\* of the Insert segments of renderDiff and its deleted the total length of
\* the Delete segments.
C7_SummaryMatchesSegments ==
  {"renderDiff", "calculateDiff"} \subseteq called
  => /\ summary.added = Len(ConcatTexts(segments, {DIFF_INSERT}))
     /\ summary.deleted = Len(ConcatTexts(segments, {DIFF_DELETE}))

\* C7 witness: both functions have run on two different non-empty texts
\* whose diff has insertions and deletions.
C7_Witness ==
  /\ {"renderDiff", "calculateDiff"} \subseteq called
  /\ oldContent # <<>> /\ newContent # <<>>
  /\ summary.added > 0 /\ summary.deleted > 0
  /\ \E i \in 1..Len(segments) : segments[i].operation = DIFF_EQUAL

\* C8: the Equal and Insert texts of renderDiff(oldText, newText),
\* concatenated in order, are newText, and its Equal and Delete texts are
\* oldText.
C8_Reconstruction ==
  "renderDiff" \in called
  => /\ ConcatTexts(segments, {DIFF_EQUAL, DIFF_INSERT}) = newContent
     /\ ConcatTexts(segments, {DIFF_EQUAL, DIFF_DELETE}) = oldContent

\* C8 witness: renderDiff has returned a diff with an equality, an insertion
\* and a deletion.
C8_Witness ==
  /\ "renderDiff" \in called
  /\ \A op \in {DIFF_EQUAL, DIFF_INSERT, DIFF_DELETE} :
       \E i \in 1..Len(segments) : segments[i].operation = op /\ segments[i].text # <<>>

\* C9: an Insert (Delete) segment whose text has k line breaks is displayed
\* as k+1 lines, each starting with '+' ('-'), whose contents joined by line
\* breaks are the text; a trailing line break gives exactly one trailing
\* empty line.  An Equal segment is displayed as its text, without marker.
C9_SegmentLines ==
  "display" \in called
  => /\ Len(spans) = Len(segments)
     /\ \A i \in 1..Len(segments) :
          /\ spans[i].operation = segments[i].operation
          /\ segments[i].operation = DIFF_INSERT
               => DisplaysLinesOf(spans[i].children, "+", segments[i].text)
          /\ segments[i].operation = DIFF_DELETE
               => DisplaysLinesOf(spans[i].children, "-", segments[i].text)
          /\ segments[i].operation = DIFF_EQUAL
               => spans[i].children = <<segments[i].text>>

\* C9 witness: an Insert segment that ends with a line break after other
\* characters has been displayed, beside an Equal segment.
C9_Witness ==
  /\ "display" \in called
  /\ \E i \in 1..Len(segments) :
       /\ segments[i].operation = DIFF_INSERT
       /\ Len(segments[i].text) >= 2
       /\ segments[i].text[Len(segments[i].text)] = NL
  /\ \E i \in 1..Len(segments) : segments[i].operation = DIFF_EQUAL

\* The entry at index is expanded and has content, and no content of the
\* next older entry is available.
ShowsFallback(index) ==
  /\ history[index + 1] \in expandedCommits
  /\ Truthy(commitContents, history[index + 1])
  /\ \/ index = Len(history) - 1
     \/ ~Truthy(commitContents, history[index + 2])

\* C10: an expanded entry with content and without prior snapshot content
\* shows every line of its content, split on line breaks, as an Insert line
\* starting with '+', and no Delete or Equal line.
C10_FallbackAllInserted ==
  \A index \in 0..(Len(history) - 1) :
    ShowsFallback(index)
    => /\ Len(EntryView(index).lines) = CountNL(commitContents[history[index + 1]]) + 1
       /\ \A l \in 1..Len(EntryView(index).lines) :
            /\ EntryView(index).lines[l].operation = DIFF_INSERT
            /\ Len(EntryView(index).lines[l].children) = 1
            /\ EntryView(index).lines[l].children[1][1] = "+"
            /\ CountNL(EntryView(index).lines[l].children[1]) = 0
       /\ JoinLines([l \in 1..Len(EntryView(index).lines) |->
                       Tail(EntryView(index).lines[l].children[1])])
            = commitContents[history[index + 1]]

\* C10 witness: an expanded entry with a two-line content is shown while
\* the next older entry, which the history has, has no content.
C10_Witness ==
  \E index \in 0..(Len(history) - 2) :
    /\ ShowsFallback(index)
    /\ CountNL(commitContents[history[index + 1]]) = 1

\* The detail view is shown only for an expanded entry whose content is in
\* commitContents, and commitContents is what the run that wrote last had
\* fetched.
ViewFromStoredContent ==
  /\ lastWriter # 0 => commitContents = batches[lastWriter].contents
  /\ lastWriter = 0 => commitContents = EmptyRecord
  /\ \A index \in 0..(Len(history) - 1) :
       /\ history[index + 1] \notin expandedCommits => EntryView(index).mode = "hidden"
       /\ EntryView(index).mode # "hidden" => Truthy(commitContents, history[index + 1])
       /\ EntryView(index).mode = "diff"
            => EntryView(index).lines
                 = DiffSpans(renderDiff(batches[lastWriter].contents[history[index + 2]],
                                        batches[lastWriter].contents[history[index + 1]]))

\* C11: expanding or collapsing an entry invokes getPastState for no run
\* and changes neither commitContents nor commitDiffs; the diff of an entry
\* is rendered only while the entry is expanded, from the content the last
\* applied run stored.
C11_ToggleFrame ==
  /\ []ViewFromStoredContent
  /\ [][expandedCommits' # expandedCommits
          => /\ batches' = batches
             /\ commitContents' = commitContents
             /\ commitDiffs' = commitDiffs]_vars

\* C11 witness: an entry has been expanded and shows the diff against the
\* next older entry while a run is still fetching.
C11_Witness ==
  /\ \E index \in 0..(Len(history) - 1) :
       /\ history[index + 1] \in expandedCommits
       /\ EntryView(index).mode = "diff"
  /\ \E b \in 1..Len(batches) : batches[b].status = "fetching"

\* The oids run b has invoked getPastState with are the entries of its
\* history from the oldest on, each once and in order.
CallsOldestFirst(b) ==
  /\ Len(batches[b].calls) <= Len(batches[b].hist)
  /\ \A n \in 1..Len(batches[b].calls) :
       batches[b].calls[n] = batches[b].hist[Len(batches[b].hist) + 1 - n]

\* C12: every history reference has started exactly one run of
\* loadCommitData, the latest for the current history; a run invokes
\* getPastState once per entry of its whole history, whatever earlier runs
\* stored; and a run writes summaries only after all its fetches completed.
C12_OneBatchPerHistory ==
  /\ Len(batches) = historyRefs
  /\ batches[Len(batches)].hist = history
  /\ \A b \in 1..Len(batches) :
       /\ CallsOldestFirst(b)
       /\ batches[b].status = "applied" => Len(batches[b].calls) = Len(batches[b].hist)
       /\ batches[b].status = "fetching"
            => /\ lastWriter # b
               /\ Len(batches[b].calls) = Len(batches[b].hist) - batches[b].i
  /\ lastWriter # 0
       => /\ batches[lastWriter].status = "applied"
          /\ DOMAIN commitDiffs \subseteq
               {batches[lastWriter].calls[n] : n \in 1..Len(batches[lastWriter].calls)}

\* C12 witness: after a first run has stored content, a second run over a
\* history of two entries has fetched both entries again and written.
C12_Witness ==
  /\ Len(batches) >= 2
  /\ batches[1].status = "applied"
  /\ batches[1].contents # EmptyRecord
  /\ batches[2].status = "applied"
  /\ Len(batches[2].calls) = 2
  /\ lastWriter = 2

\* C13: when getPastState rejects in a run, the run's promise is rejected
\* (the failure is not caught); the run invokes getPastState no further,
\* not for the failed entry either, and never writes: the step of the
\* rejection and every later step of the run leave commitContents and
\* commitDiffs as they are.
C13_RejectionPropagates ==
  /\ [](\A b \in 1..Len(batches) :
           /\ batches[b].failed <=> batches[b].status = "rejected"
           /\ batches[b].failed => lastWriter # b /\ CallsOldestFirst(b))
  /\ [][\A b \in 1..Len(batches) :
          /\ batches[b].failed => batches'[b] = batches[b]
          /\ (~batches[b].failed /\ batches'[b].failed)
               => /\ batches'[b].calls = batches[b].calls
                  /\ commitContents' = commitContents
                  /\ commitDiffs' = commitDiffs
                  /\ lastWriter' = lastWriter]_vars

\* C13 witness: a run over two entries was rejected at its second fetch,
\* after it had stored the content of the first, while commitContents
\* holds what another run wrote.
C13_Witness ==
  \E b \in 1..Len(batches) :
    /\ batches[b].status = "rejected"
    /\ Len(batches[b].calls) = 2
    /\ batches[b].contents # EmptyRecord
    /\ lastWriter # 0
    /\ commitContents # EmptyRecord

\* What a run over history h stores when every fetch resolves: the content
\* of every entry that has one.
ExpectedContents(h) ==
  [o \in {h[j] : j \in {k \in 1..Len(h) : HasContent(h[k])}} |-> store[o].text]

\* The summaries the diff loop computes from these contents.
ExpectedDiffs(h) == diffLoop(h, ExpectedContents(h), 0, EmptyRecord)

\* C14: convergence.  If no fetch of any run fails (and every outstanding
\* fetch is eventually resolved, and the history stops changing, as it
\* does), then eventually and from then on commitContents and commitDiffs
\* are the values computed from the latest history, whatever the order in
\* which the runs complete.  (A stale run that completes last leaves its
\* own values instead.)
C14_Convergence ==
  [](\A b \in 1..Len(batches) : ~batches[b].failed)
  => <>[](/\ commitContents = ExpectedContents(history)
          /\ commitDiffs = ExpectedDiffs(history))

\* C15: rollback guard.  While the 100 ms timeout of a successful rollback
\* is pending, isRollingBackRef is true and an onChange event does not
\* overwrite editorValue, also when rollbacks overlap; and a rollback whose
\* past content is absent changes neither editorValue, the saved content
\* nor the flag.  (The first rollback's timeout lowers the flag inside the
\* second rollback's window.)
C15_RollbackGuard ==
  /\ [](timers # <<>> => isRollingBackRef)
  /\ [][(lastOp' = "onChange" /\ timers # <<>>) => editorValue' = editorValue]_vars
  /\ [][lastOp' = "rollbackAbsent"
          => /\ editorValue' = editorValue
             /\ fileContent' = fileContent
             /\ isRollingBackRef' = isRollingBackRef]_vars

====
